---- MODULE Spec2Model ----
\* Model of the web3fans subscription access-control protocol:
\*   contracts/sources/group.move        (module web3fans::group)
\*   module web3fans::seal_access        (kept in backend/src/reports/service.ts, l.288-451)
EXTENDS Integers, Sequences, FiniteSets, TLC

\* ---------------------------------------------------------------- bounds
\* Largest value of the unsigned integer type (2^64 - 1 in Move), scaled down.
\* The clock, the counters and every sum live in 0..MAX_U64; a sum above it aborts.
MAX_U64 == 2
\* Number of bytes of an object ID (32 in Sui) and number of byte values (256), scaled.
IdLen == 2
ByteBase == 3
\* How many objects of each kind the model lets the ledger hold, and how many
\* object IDs it hands out in all.
MaxGroups == 2
MaxSubs == 2
MaxReports == 1
MaxIds == 7

\* ---------------------------------------------------------------- inputs
Principals == {"alice", "bob"}
Descriptions == {"d0", "d1"}
TelegramIds == {"tg1"}
Fees == {0, 1}
Payments == {0, 1, 2}
Periods == {0, 1}
MemberCaps == {0, 1}

NoId == 0 - 1
\* const VERSION of the group module
VERSION == 1
NumIds == ByteBase ^ IdLen
IdLimit == IF MaxIds < NumIds THEN MaxIds ELSE NumIds

VARIABLES
    now,        \* sui::clock::Clock.timestamp_ms
    next_id,    \* TxContext: how many object IDs have been handed out
    groups,     \* shared Group objects, by ID
    admin_caps, \* GroupAdminCap objects (with their holder)
    subs,       \* Subscription objects
    keys,       \* seal_access::AccessKey objects
    reports,    \* shared Report objects
    received,   \* coins transferred to each address by subscribe
    cap,        \* the DecryptionCapability in flight inside the running transaction
    txs,        \* each sender's subscribe transaction: submitted, then executed
    uploads,    \* what each publisher's handleSubmit produced: the report, the key
                \* identifier, the encryption key and the key service's payload
    last        \* the last call: its arguments and its outcome

vars == <<now, next_id, groups, admin_caps, subs, keys, reports, received, cap, txs, uploads,
          last>>

\* ---------------------------------------------------------------- object IDs
\* object::id_to_bytes: the ID's fixed-length canonical bytes (big-endian digits).
id_to_bytes(id) == [i \in 1..IdLen |-> (id \div (ByteBase ^ (IdLen - i))) % ByteBase]

GroupIds == DOMAIN groups
GroupById(gid) == groups[gid]
SubById(sid) == CHOOSE s \in subs : s.id = sid
KeyById(kid) == CHOOSE k \in keys : k.id = kid
ReportById(rid) == CHOOSE r \in reports : r.id = rid

\* ---------------------------------------------------------------- group.move
\* create_group whose GroupAdminCap carries its own id for the group's
create_group_cap_unbound(description, subscription_fee, subscription_period, max_members, t, sender, uid) ==
    [group |-> [id |-> uid,
                description |-> description,
                owner |-> sender,
                subscription_fee |-> subscription_fee,
                subscription_period |-> subscription_period,
                max_members |-> max_members,
                current_members |-> 0,
                report_count |-> 0,
                created_at |-> t],
     admin_cap |-> [id |-> uid + 1, group_id |-> uid + 1, holder |-> sender]]

\* create_group: the Group and its GroupAdminCap; the IDs are uid (group) and uid + 1 (cap).
\* The strings no function of the two modules reads back (name, telegram_group_id,
\* telegram_invite_link; title, summary and walrus_blob_id of a Report) are left out.
create_group(description, subscription_fee, subscription_period, max_members, t, sender, uid) ==
    [group |-> [id |-> uid,
                description |-> description,
                owner |-> sender,
                subscription_fee |-> subscription_fee,
                subscription_period |-> subscription_period,
                max_members |-> max_members,
                current_members |-> 0,
                report_count |-> 0,
                created_at |-> t],
     admin_cap |-> [id |-> uid + 1, group_id |-> uid, holder |-> sender]]

\* subscribe accepting any payment that covers the fee (>= for ==)
subscribe_fee_at_least(group, payment, telegram_id, t, sender, uid) ==
    IF ~(payment >= group.subscription_fee)
    THEN [res |-> "EInvalidFee"]
    ELSE IF group.max_members > 0 /\ ~(group.current_members < group.max_members)
    THEN [res |-> "EGroupFull"]
    ELSE IF group.current_members + 1 > MAX_U64
    THEN [res |-> "ARITHMETIC_ERROR"]
    ELSE IF t + group.subscription_period > MAX_U64
    THEN [res |-> "ARITHMETIC_ERROR"]
    ELSE [res |-> "OK",
          transfer |-> [amount |-> payment, recipient |-> group.owner],
          group |-> [group EXCEPT !.current_members = group.current_members + 1],
          subscription |-> [id |-> uid,
                            group_id |-> group.id,
                            subscriber |-> sender,
                            telegram_id |-> telegram_id,
                            subscribed_at |-> t,
                            expires_at |-> t + group.subscription_period]]

\* subscribe with the member limit off by one (<= for <)
subscribe_limit_off_by_one(group, payment, telegram_id, t, sender, uid) ==
    IF ~(payment = group.subscription_fee)
    THEN [res |-> "EInvalidFee"]
    ELSE IF group.max_members > 0 /\ ~(group.current_members <= group.max_members)
    THEN [res |-> "EGroupFull"]
    ELSE IF group.current_members + 1 > MAX_U64
    THEN [res |-> "ARITHMETIC_ERROR"]
    ELSE IF t + group.subscription_period > MAX_U64
    THEN [res |-> "ARITHMETIC_ERROR"]
    ELSE [res |-> "OK",
          transfer |-> [amount |-> payment, recipient |-> group.owner],
          group |-> [group EXCEPT !.current_members = group.current_members + 1],
          subscription |-> [id |-> uid,
                            group_id |-> group.id,
                            subscriber |-> sender,
                            telegram_id |-> telegram_id,
                            subscribed_at |-> t,
                            expires_at |-> t + group.subscription_period]]

\* subscribe without the member-limit check
subscribe_no_limit(group, payment, telegram_id, t, sender, uid) ==
    IF ~(payment = group.subscription_fee)
    THEN [res |-> "EInvalidFee"]
    ELSE IF group.current_members + 1 > MAX_U64
    THEN [res |-> "ARITHMETIC_ERROR"]
    ELSE IF t + group.subscription_period > MAX_U64
    THEN [res |-> "ARITHMETIC_ERROR"]
    ELSE [res |-> "OK",
          transfer |-> [amount |-> payment, recipient |-> group.owner],
          group |-> [group EXCEPT !.current_members = group.current_members + 1],
          subscription |-> [id |-> uid,
                            group_id |-> group.id,
                            subscriber |-> sender,
                            telegram_id |-> telegram_id,
                            subscribed_at |-> t,
                            expires_at |-> t + group.subscription_period]]

\* subscribe that forgets the current time in expires_at
subscribe_expiry_without_now(group, payment, telegram_id, t, sender, uid) ==
    IF ~(payment = group.subscription_fee)
    THEN [res |-> "EInvalidFee"]
    ELSE IF group.max_members > 0 /\ ~(group.current_members < group.max_members)
    THEN [res |-> "EGroupFull"]
    ELSE IF group.current_members + 1 > MAX_U64
    THEN [res |-> "ARITHMETIC_ERROR"]
    ELSE IF t + group.subscription_period > MAX_U64
    THEN [res |-> "ARITHMETIC_ERROR"]
    ELSE [res |-> "OK",
          transfer |-> [amount |-> payment, recipient |-> group.owner],
          group |-> [group EXCEPT !.current_members = group.current_members + 1],
          subscription |-> [id |-> uid,
                            group_id |-> group.id,
                            subscriber |-> sender,
                            telegram_id |-> telegram_id,
                            subscribed_at |-> t,
                            expires_at |-> group.subscription_period]]

\* subscribe that derives the Subscription's ID from the group instead of taking
\* a fresh one
subscribe_id_from_group(group, payment, telegram_id, t, sender, uid) ==
    IF ~(payment = group.subscription_fee)
    THEN [res |-> "EInvalidFee"]
    ELSE IF group.max_members > 0 /\ ~(group.current_members < group.max_members)
    THEN [res |-> "EGroupFull"]
    ELSE IF group.current_members + 1 > MAX_U64
    THEN [res |-> "ARITHMETIC_ERROR"]
    ELSE IF t + group.subscription_period > MAX_U64
    THEN [res |-> "ARITHMETIC_ERROR"]
    ELSE [res |-> "OK",
          transfer |-> [amount |-> payment, recipient |-> group.owner],
          group |-> [group EXCEPT !.current_members = group.current_members + 1],
          subscription |-> [id |-> group.id + 2,
                            group_id |-> group.id,
                            subscriber |-> sender,
                            telegram_id |-> telegram_id,
                            subscribed_at |-> t,
                            expires_at |-> t + group.subscription_period]]

\* subscribe that sends the payment back to the sender instead of the owner
subscribe_pays_sender(group, payment, telegram_id, t, sender, uid) ==
    IF ~(payment = group.subscription_fee)
    THEN [res |-> "EInvalidFee"]
    ELSE IF group.max_members > 0 /\ ~(group.current_members < group.max_members)
    THEN [res |-> "EGroupFull"]
    ELSE IF group.current_members + 1 > MAX_U64
    THEN [res |-> "ARITHMETIC_ERROR"]
    ELSE IF t + group.subscription_period > MAX_U64
    THEN [res |-> "ARITHMETIC_ERROR"]
    ELSE [res |-> "OK",
          transfer |-> [amount |-> payment, recipient |-> sender],
          group |-> [group EXCEPT !.current_members = group.current_members + 1],
          subscription |-> [id |-> uid,
                            group_id |-> group.id,
                            subscriber |-> sender,
                            telegram_id |-> telegram_id,
                            subscribed_at |-> t,
                            expires_at |-> t + group.subscription_period]]

\* subscribe whose expiry addition wraps round at 2^64 instead of aborting
subscribe_expiry_wraps(group, payment, telegram_id, t, sender, uid) ==
    IF ~(payment = group.subscription_fee)
    THEN [res |-> "EInvalidFee"]
    ELSE IF group.max_members > 0 /\ ~(group.current_members < group.max_members)
    THEN [res |-> "EGroupFull"]
    ELSE IF group.current_members + 1 > MAX_U64
    THEN [res |-> "ARITHMETIC_ERROR"]
    ELSE [res |-> "OK",
          transfer |-> [amount |-> payment, recipient |-> group.owner],
          group |-> [group EXCEPT !.current_members = group.current_members + 1],
          subscription |-> [id |-> uid,
                            group_id |-> group.id,
                            subscriber |-> sender,
                            telegram_id |-> telegram_id,
                            subscribed_at |-> t,
                            expires_at |-> (t + group.subscription_period)
                                               % (MAX_U64 + 1)]]

\* subscribe: the asserts in the order of the code, then the effects. An abort
\* (a failed assert or an overflowing u64 addition) reverts the whole transaction.
subscribe(group, payment, telegram_id, t, sender, uid) ==
    IF ~(payment = group.subscription_fee)
    THEN [res |-> "EInvalidFee"]
    ELSE IF group.max_members > 0 /\ ~(group.current_members < group.max_members)
    THEN [res |-> "EGroupFull"]
    ELSE IF group.current_members + 1 > MAX_U64
    THEN [res |-> "ARITHMETIC_ERROR"]
    ELSE IF t + group.subscription_period > MAX_U64
    THEN [res |-> "ARITHMETIC_ERROR"]
    ELSE [res |-> "OK",
          transfer |-> [amount |-> payment, recipient |-> group.owner],
          group |-> [group EXCEPT !.current_members = group.current_members + 1],
          subscription |-> [id |-> uid,
                            group_id |-> group.id,
                            subscriber |-> sender,
                            telegram_id |-> telegram_id,
                            subscribed_at |-> t,
                            expires_at |-> t + group.subscription_period]]

\* check_subscription_valid with the expiry comparison turned round (< for >)
check_subscription_valid_reversed(subscription, group, t) ==
    IF subscription.group_id # group.id
    THEN FALSE
    ELSE IF t < subscription.expires_at
    THEN FALSE
    ELSE TRUE

\* check_subscription_valid with the expiry instant excluded (>= for >)
check_subscription_valid_strict(subscription, group, t) ==
    IF subscription.group_id # group.id
    THEN FALSE
    ELSE IF t >= subscription.expires_at
    THEN FALSE
    ELSE TRUE

\* check_subscription_valid
check_subscription_valid(subscription, group, t) ==
    IF subscription.group_id # group.id
    THEN FALSE
    ELSE IF t > subscription.expires_at
    THEN FALSE
    ELSE TRUE

\* The shared PackageVersion object that init publishes; no function changes it.
PackageVersion == [version |-> VERSION]

\* seal_approve: the prefix loop from index i on (1-based here, 0-based in Move);
\* FALSE stands for the abort EInvalidSubscription.
RECURSIVE seal_approve_prefix_from(_, _, _)
seal_approve_prefix_from(group_id_bytes, key_id, i) ==
    IF ~(i <= Len(group_id_bytes))
    THEN TRUE
    ELSE IF group_id_bytes[i] # key_id[i]
    THEN FALSE
    ELSE seal_approve_prefix_from(group_id_bytes, key_id, i + 1)

\* seal_approve that looks at the key identifier before the subscription
seal_approve_namespace_first(key_id, subscription, group, t, pkg_version) ==
    IF ~(pkg_version.version = VERSION)
    THEN [res |-> "999"]
    ELSE IF Len(id_to_bytes(group.id)) > Len(key_id)
    THEN [res |-> "EInvalidSubscription"]
    ELSE IF ~seal_approve_prefix_from(id_to_bytes(group.id), key_id, 1)
    THEN [res |-> "EInvalidSubscription"]
    ELSE IF ~check_subscription_valid(subscription, group, t)
    THEN [res |-> "ESubscriptionExpired"]
    ELSE [res |-> "OK"]

\* seal_approve
seal_approve(key_id, subscription, group, t, pkg_version) ==
    IF ~(pkg_version.version = VERSION)
    THEN [res |-> "999"]
    ELSE IF ~check_subscription_valid(subscription, group, t)
    THEN [res |-> "ESubscriptionExpired"]
    ELSE IF Len(id_to_bytes(group.id)) > Len(key_id)
    THEN [res |-> "EInvalidSubscription"]
    ELSE IF ~seal_approve_prefix_from(id_to_bytes(group.id), key_id, 1)
    THEN [res |-> "EInvalidSubscription"]
    ELSE [res |-> "OK"]

\* ---------------------------------------------------------------- seal_access
\* create_access_key that takes the expiry from the clock instead of its argument
create_access_key_expiry_from_clock(group_id, subscription_id, expires_at, t, uid) ==
    [id |-> uid,
     group_id |-> group_id,
     subscription_id |-> subscription_id,
     namespace |-> id_to_bytes(group_id),
     created_at |-> t,
     expires_at |-> t]

\* create_access_key
create_access_key(group_id, subscription_id, expires_at, t, uid) ==
    [id |-> uid,
     group_id |-> group_id,
     subscription_id |-> subscription_id,
     namespace |-> id_to_bytes(group_id),
     created_at |-> t,
     expires_at |-> expires_at]

\* the prefix loop stopping one byte early (i < ns_len - 1)
RECURSIVE verify_prefix_stops_early(_, _, _)
verify_prefix_stops_early(namespace, key_id, i) ==
    IF ~(i <= Len(namespace) - 1)
    THEN TRUE
    ELSE IF ~(namespace[i] = key_id[i])
    THEN FALSE
    ELSE verify_prefix_stops_early(namespace, key_id, i + 1)

\* verify_key_namespace: the loop from index i on (1-based here, 0-based in Move);
\* FALSE stands for the abort EInvalidKeyNamespace.
RECURSIVE verify_prefix_from(_, _, _)
verify_prefix_from(namespace, key_id, i) ==
    IF ~(i <= Len(namespace))
    THEN TRUE
    ELSE IF ~(namespace[i] = key_id[i])
    THEN FALSE
    ELSE verify_prefix_from(namespace, key_id, i + 1)

verify_key_namespace(namespace, key_id) ==
    IF ~(Len(key_id) >= Len(namespace))
    THEN FALSE
    ELSE verify_prefix_from(namespace, key_id, 1)

\* verify_and_grant_access with the group check before the expiry check
verify_and_grant_access_group_first(access_key, report_id, report_group_id, key_id, t) ==
    IF ~(access_key.group_id = report_group_id)
    THEN [res |-> "EUnauthorized"]
    ELSE IF ~(t <= access_key.expires_at)
    THEN [res |-> "ESubscriptionExpired"]
    ELSE IF ~verify_key_namespace(access_key.namespace, key_id)
    THEN [res |-> "EInvalidKeyNamespace"]
    ELSE [res |-> "OK",
          cap |-> [report_id |-> report_id, key_id |-> key_id, verified_at |-> t]]

\* verify_and_grant_access that puts the key's namespace in the capability
verify_and_grant_access_namespace_as_key(access_key, report_id, report_group_id, key_id, t) ==
    IF ~(t <= access_key.expires_at)
    THEN [res |-> "ESubscriptionExpired"]
    ELSE IF ~(access_key.group_id = report_group_id)
    THEN [res |-> "EUnauthorized"]
    ELSE IF ~verify_key_namespace(access_key.namespace, key_id)
    THEN [res |-> "EInvalidKeyNamespace"]
    ELSE [res |-> "OK",
          cap |-> [report_id |-> report_id, key_id |-> access_key.namespace,
                   verified_at |-> t]]

\* verify_and_grant_access
verify_and_grant_access(access_key, report_id, report_group_id, key_id, t) ==
    IF ~(t <= access_key.expires_at)
    THEN [res |-> "ESubscriptionExpired"]
    ELSE IF ~(access_key.group_id = report_group_id)
    THEN [res |-> "EUnauthorized"]
    ELSE IF ~verify_key_namespace(access_key.namespace, key_id)
    THEN [res |-> "EInvalidKeyNamespace"]
    ELSE [res |-> "OK",
          cap |-> [report_id |-> report_id, key_id |-> key_id, verified_at |-> t]]

\* consume_decryption_capability
consume_decryption_capability(c) == <<c.report_id, c.key_id>>

\* get_decryption_capability_info
get_decryption_capability_info(c) == <<c.report_id, c.key_id>>

\* is_access_key_valid with the expiry instant excluded (< for <=)
is_access_key_valid_strict(access_key, t) == t < access_key.expires_at

\* is_access_key_valid
is_access_key_valid(access_key, t) == t <= access_key.expires_at

\* ---------------------------------------------------------------- group.move (continued)
\* subscribe_with_access_key with a fee check of its own that accepts overpayment
subscribe_with_access_key_own_fee_check(group, payment, telegram_id, t, sender, uid) ==
    LET out == subscribe_fee_at_least(group, payment, telegram_id, t, sender, uid)
    IN IF out.res # "OK"
       THEN out
       ELSE [res |-> "OK",
             transfer |-> out.transfer,
             group |-> out.group,
             subscription |-> out.subscription,
             access_key |-> create_access_key(group.id, out.subscription.id,
                                              out.subscription.expires_at, t, uid + 1)]

\* subscribe_with_access_key: subscribe, then create_access_key with the next ID.
subscribe_with_access_key(group, payment, telegram_id, t, sender, uid) ==
    LET out == subscribe(group, payment, telegram_id, t, sender, uid)
    IN IF out.res # "OK"
       THEN out
       ELSE [res |-> "OK",
             transfer |-> out.transfer,
             group |-> out.group,
             subscription |-> out.subscription,
             access_key |-> create_access_key(group.id, out.subscription.id,
                                              out.subscription.expires_at, t, uid + 1)]

\* publish_report that refuses a key identifier without the group's namespace
publish_report_checks_namespace(group, admin_cap, seal_key_id, t, sender, uid) ==
    IF ~(admin_cap.group_id = group.id)
    THEN [res |-> "ENotGroupOwner"]
    ELSE IF ~(/\ Len(seal_key_id) >= IdLen
              /\ SubSeq(seal_key_id, 1, IdLen) = id_to_bytes(group.id))
    THEN [res |-> "EInvalidSubscription"]
    ELSE IF group.report_count + 1 > MAX_U64
    THEN [res |-> "ARITHMETIC_ERROR"]
    ELSE [res |-> "OK",
          group |-> [group EXCEPT !.report_count = group.report_count + 1],
          report |-> [id |-> uid,
                      group_id |-> group.id,
                      seal_key_id |-> seal_key_id,
                      publisher |-> sender,
                      published_at |-> t]]

\* publish_report that checks the sender against the group's owner, not the cap
publish_report_checks_sender(group, admin_cap, seal_key_id, t, sender, uid) ==
    IF ~(sender = group.owner)
    THEN [res |-> "ENotGroupOwner"]
    ELSE IF group.report_count + 1 > MAX_U64
    THEN [res |-> "ARITHMETIC_ERROR"]
    ELSE [res |-> "OK",
          group |-> [group EXCEPT !.report_count = group.report_count + 1],
          report |-> [id |-> uid,
                      group_id |-> group.id,
                      seal_key_id |-> seal_key_id,
                      publisher |-> sender,
                      published_at |-> t]]

\* publish_report
publish_report(group, admin_cap, seal_key_id, t, sender, uid) ==
    IF ~(admin_cap.group_id = group.id)
    THEN [res |-> "ENotGroupOwner"]
    ELSE IF group.report_count + 1 > MAX_U64
    THEN [res |-> "ARITHMETIC_ERROR"]
    ELSE [res |-> "OK",
          group |-> [group EXCEPT !.report_count = group.report_count + 1],
          report |-> [id |-> uid,
                      group_id |-> group.id,
                      seal_key_id |-> seal_key_id,
                      publisher |-> sender,
                      published_at |-> t]]

\* request_report_access
request_report_access(access_key, report, group, t) ==
    verify_and_grant_access(access_key, report.id, group.id, report.seal_key_id, t)

\* update_group_description
update_group_description(group, admin_cap, new_description) ==
    IF ~(admin_cap.group_id = group.id)
    THEN [res |-> "ENotGroupOwner"]
    ELSE [res |-> "OK", group |-> [group EXCEPT !.description = new_description]]

\* update_subscription_fee
update_subscription_fee(group, admin_cap, new_fee) ==
    IF ~(admin_cap.group_id = group.id)
    THEN [res |-> "ENotGroupOwner"]
    ELSE [res |-> "OK", group |-> [group EXCEPT !.subscription_fee = new_fee]]

\* ---------------------------------------------------------------- key service
\* A string is a sequence of character codes, a byte string a sequence of bytes.
\* The lower half of the byte values are the one-byte (ASCII) characters; the
\* hexadecimal digits are among them.
AsciiLimit == (ByteBase + 1) \div 2
HexDigits == 0..(AsciiLimit - 1)

\* U+FFFD, which Buffer.toString('utf8') puts for a byte that is no character;
\* its code is outside the byte range.
ReplacementChar == ByteBase

\* Buffer.from(bytes).toString('utf8'), byte by byte (a multi-byte sequence would
\* give fewer characters than bytes, never more).
Utf8ToString(bytes) ==
    [i \in 1..Len(bytes) |-> IF bytes[i] < AsciiLimit THEN bytes[i] ELSE ReplacementChar]

\* new TextEncoder().encode(str) of a string of one-byte characters
TextEncode(str) == [i \in 1..Len(str) |-> str[i]]

\* The payload's layout: the IV in hex, the auth tag in hex, the encrypted key.
\* (24 and 32 characters in the code, against key identifiers of 32 + 16 bytes.)
IvHexLen == IdLen
TagHexLen == IdLen
HeaderLen == IvHexLen + TagHexLen

\* The encryption keys a publisher may generate and the IVs randomBytes may return.
EncryptionKeys == {"k0", "k1"}
KeyCode(k) == IF k = "k0" THEN 0 ELSE 1
Ivs == {[i \in 1..IvHexLen |-> d] : d \in HexDigits}
NoKey == "null"

\* AES-256-GCM under MASTER_KEY, as a toy cipher on hex digits: the ciphertext of
\* a key and the tag that authenticates an IV and a ciphertext.
Encrypt(iv, encryptionKey) == <<(KeyCode(encryptionKey) + iv[1]) % AsciiLimit>>

AuthTag(iv, encrypted) ==
    [j \in 1..TagHexLen |->
        (iv[IvHexLen] + Len(encrypted) + j
           + (IF Len(encrypted) > 0 THEN encrypted[1] ELSE 0)) % AsciiLimit]

Decrypt(iv, encrypted) ==
    IF \E k \in EncryptionKeys : Encrypt(iv, k) = encrypted
    THEN CHOOSE k \in EncryptionKeys : Encrypt(iv, k) = encrypted
    ELSE NoKey

\* SealService.storeKey: originalKeyId is not used; the payload is returned
\* "to be used as keyId".
storeKey(originalKeyId, encryptionKey, iv) ==
    LET encrypted == Encrypt(iv, encryptionKey)
    IN iv \o AuthTag(iv, encrypted) \o encrypted

\* SealService.retrieveKey; keyIdInput is a string or a byte array.
retrieveKey(keyIdInput) ==
    LET payload == IF keyIdInput.type = "string"
                   THEN keyIdInput.value
                   ELSE Utf8ToString(keyIdInput.value)
    IN IF Len(payload) < HeaderLen
       THEN NoKey
       ELSE LET iv == SubSeq(payload, 1, IvHexLen)
                authTag == SubSeq(payload, IvHexLen + 1, HeaderLen)
                encrypted == SubSeq(payload, HeaderLen + 1, Len(payload))
            IN IF \E i \in 1..Len(payload) : payload[i] \notin HexDigits
               THEN NoKey
               ELSE IF authTag # AuthTag(iv, encrypted)
               THEN NoKey
               ELSE Decrypt(iv, encrypted)

\* POST /seal/retrieve-key: accessKeyId and subscriptionProof are only logged.
retrieve_key_route(keyId, subscriptionProof, accessKeyId) ==
    LET encryptionKey == retrieveKey(keyId)
    IN IF encryptionKey = NoKey
       THEN [status |-> 404, encryptionKey |-> NoKey]
       ELSE [status |-> 200, encryptionKey |-> encryptionKey]

\* SealService.verifyAccess: subscription is the object getObject returned (NoObject
\* if none); t is Date.now(), taken to run with the chain's clock.
NoObject == [id |-> NoId]
verifyAccess(keyId, subscription, groupId, t) ==
    IF subscription = NoObject
    THEN FALSE
    ELSE IF subscription.group_id # groupId
    THEN FALSE
    ELSE IF t > subscription.expires_at
    THEN FALSE
    ELSE TRUE

\* isSubscriptionExpired (frontend utils), t being Date.now()
isSubscriptionExpired(expiresAt, t) == t > expiresAt

\* encryptFile: the key identifier is the group's id bytes followed by random bytes.
encryptFile_keyId(groupId, random) == id_to_bytes(groupId) \o <<random>>

\* handleDecryptAndView's check of the found key's expiry before it decrypts
\* (subscriptionExpiry && subscriptionExpiry <= Date.now()): TRUE if it refuses.
view_gate_refuses(subscriptionExpiry, t) ==
    subscriptionExpiry # 0 /\ subscriptionExpiry <= t

\* ---------------------------------------------------------------- the calls
NoCall == [op |-> "none", caller |-> "", group |-> NoId, payment |-> 0, telegram_id |-> "",
           sub |-> NoId, key |-> NoId, report |-> NoId, now |-> 0, res |-> "",
           pre_fee |-> 0, pre_members |-> 0, ret |-> <<>>, key_id |-> <<>>,
           args |-> <<>>]

NoCap == [report_id |-> NoId, key_id |-> <<>>, verified_at |-> 0]

\* No transaction of the sender is known.
NoTx == [st |-> "idle", group |-> NoId, payment |-> 0, seen_members |-> 0, at |-> 0,
         res |-> ""]

\* No transaction is half-way: a DecryptionCapability has no drop ability, so the
\* transaction that obtained one has to consume it before it ends.
Idle == cap = NoCap

Init ==
    /\ now = 0
    /\ next_id = 0
    /\ groups = <<>>
    /\ admin_caps = {}
    /\ subs = {}
    /\ keys = {}
    /\ reports = {}
    /\ received = [p \in Principals |-> 0]
    /\ cap = NoCap
    /\ txs = [p \in Principals |-> NoTx]
    /\ uploads = {}
    /\ last = NoCall

\* The clock moves forward between transactions.
Tick ==
    /\ Idle
    /\ now < MAX_U64
    /\ now' = now + 1
    /\ UNCHANGED <<next_id, groups, admin_caps, subs, keys, reports, received, cap, last, txs, uploads>>

\* create_group_entry
CreateGroup(sender, description, fee, period, max_members) ==
    /\ Idle
    /\ next_id + 2 <= IdLimit
    /\ LET out == create_group(description, fee, period, max_members, now, sender, next_id)
       IN /\ groups' = (next_id :> out.group) @@ groups
          /\ admin_caps' = admin_caps \cup {out.admin_cap}
          /\ next_id' = next_id + 2
          /\ last' = [NoCall EXCEPT !.op = "create_group", !.caller = sender,
                                    !.group = next_id, !.now = now, !.res = "OK",
                                    !.args = <<fee, period, max_members>>]
    /\ UNCHANGED <<now, subs, keys, reports, received, cap, txs, uploads>>

\* subscribe_entry: the transaction's effect on the ledger
SubscribeCall(sender, gid, payment, telegram_id) ==
    /\ Idle
    /\ gid \in GroupIds
    /\ LET g == groups[gid]
           out == subscribe(g, payment, telegram_id, now, sender, next_id)
           call == [NoCall EXCEPT !.op = "subscribe", !.caller = sender, !.group = gid,
                                  !.payment = payment, !.telegram_id = telegram_id,
                                  !.now = now, !.res = out.res,
                                  !.pre_fee = g.subscription_fee,
                                  !.pre_members = g.current_members]
       IN IF out.res = "OK"
          THEN /\ Cardinality(subs) < MaxSubs
               /\ next_id + 1 <= IdLimit
               /\ groups' = [groups EXCEPT ![gid] = out.group]
               /\ subs' = subs \cup {out.subscription}
               /\ received' = [received EXCEPT ![out.transfer.recipient] =
                                                   @ + out.transfer.amount]
               /\ next_id' = next_id + 1
               /\ last' = [call EXCEPT !.sub = out.subscription.id]
          ELSE /\ last' = call
               /\ UNCHANGED <<groups, subs, received, next_id>>
    /\ UNCHANGED <<now, admin_caps, keys, reports, cap, uploads>>

\* subscribe_entry, submitted and executed at once
Subscribe(sender, gid, payment, telegram_id) ==
    /\ SubscribeCall(sender, gid, payment, telegram_id)
    /\ UNCHANGED txs

\* A sender signs and submits a subscribe_entry transaction on a group; what the
\* sender saw of the group's member count is kept with it. The Group is a shared
\* object: the transactions on it are executed one at a time, in any order.
SubmitSubscribe(sender, gid, payment) ==
    /\ Idle
    /\ gid \in GroupIds
    /\ txs[sender].st # "submitted"
    /\ txs' = [txs EXCEPT ![sender] =
                  [NoTx EXCEPT !.st = "submitted", !.group = gid, !.payment = payment,
                               !.seen_members = groups[gid].current_members]]
    /\ UNCHANGED <<now, next_id, groups, admin_caps, subs, keys, reports, received, cap,
                   uploads, last>>

\* A submitted transaction is executed: subscribe runs against the group as it is now.
ExecuteSubscribe(sender) ==
    /\ txs[sender].st = "submitted"
    /\ SubscribeCall(sender, txs[sender].group, txs[sender].payment, "tg1")
    /\ txs' = [txs EXCEPT ![sender].st = "executed", ![sender].at = now,
                          ![sender].res = last'.res]

\* subscribe_with_access_key_entry
SubscribeWithAccessKey(sender, gid, payment, telegram_id) ==
    /\ Idle
    /\ gid \in GroupIds
    /\ LET g == groups[gid]
           out == subscribe_with_access_key(g, payment, telegram_id, now, sender, next_id)
           call == [NoCall EXCEPT !.op = "subscribe_with_access_key", !.caller = sender,
                                  !.group = gid, !.payment = payment,
                                  !.telegram_id = telegram_id,
                                  !.now = now, !.res = out.res,
                                  !.pre_fee = g.subscription_fee,
                                  !.pre_members = g.current_members]
       IN IF out.res = "OK"
          THEN /\ Cardinality(subs) < MaxSubs
               /\ next_id + 2 <= IdLimit
               /\ groups' = [groups EXCEPT ![gid] = out.group]
               /\ subs' = subs \cup {out.subscription}
               /\ keys' = keys \cup {out.access_key}
               /\ received' = [received EXCEPT ![out.transfer.recipient] =
                                                   @ + out.transfer.amount]
               /\ next_id' = next_id + 2
               /\ last' = [call EXCEPT !.sub = out.subscription.id,
                                       !.key = out.access_key.id]
          ELSE /\ last' = call
               /\ UNCHANGED <<groups, subs, keys, received, next_id>>
    /\ UNCHANGED <<now, admin_caps, reports, cap, txs, uploads>>

\* publish_report_entry: the transaction's effect on the ledger; the sender passes a
\* GroupAdminCap it holds.
PublishReportCall(sender, gid, cid, seal_key_id) ==
    /\ Idle
    /\ gid \in GroupIds
    /\ \E c \in admin_caps :
          /\ c.id = cid
          /\ c.holder = sender
          /\ LET g == groups[gid]
                 out == publish_report(g, c, seal_key_id, now, sender, next_id)
                 call == [NoCall EXCEPT !.op = "publish_report", !.caller = sender,
                                        !.group = gid, !.key = cid,
                                        !.key_id = seal_key_id, !.now = now,
                                        !.res = out.res]
             IN IF out.res = "OK"
                THEN /\ Cardinality(reports) < MaxReports
                     /\ next_id + 1 <= IdLimit
                     /\ groups' = [groups EXCEPT ![gid] = out.group]
                     /\ reports' = reports \cup {out.report}
                     /\ next_id' = next_id + 1
                     /\ last' = [call EXCEPT !.report = out.report.id]
                ELSE /\ last' = call
                     /\ UNCHANGED <<groups, reports, next_id>>
    /\ UNCHANGED <<now, admin_caps, subs, keys, received, cap, txs>>

\* publish_report_entry called with a key identifier of the caller's choice
PublishReport(sender, gid, cid, seal_key_id) ==
    /\ PublishReportCall(sender, gid, cid, seal_key_id)
    /\ UNCHANGED uploads

\* update_group_description
UpdateGroupDescription(sender, gid, cid, new_description) ==
    /\ Idle
    /\ gid \in GroupIds
    /\ \E c \in admin_caps :
          /\ c.id = cid
          /\ c.holder = sender
          /\ LET out == update_group_description(groups[gid], c, new_description)
             IN /\ groups' = IF out.res = "OK" THEN [groups EXCEPT ![gid] = out.group]
                                                ELSE groups
                /\ last' = [NoCall EXCEPT !.op = "update_group_description",
                                          !.caller = sender, !.group = gid, !.key = cid,
                                          !.now = now, !.res = out.res]
    /\ UNCHANGED <<now, next_id, admin_caps, subs, keys, reports, received, cap, txs, uploads>>

\* update_subscription_fee
UpdateSubscriptionFee(sender, gid, cid, new_fee) ==
    /\ Idle
    /\ gid \in GroupIds
    /\ \E c \in admin_caps :
          /\ c.id = cid
          /\ c.holder = sender
          /\ LET g == groups[gid]
                 out == update_subscription_fee(g, c, new_fee)
             IN /\ groups' = IF out.res = "OK" THEN [groups EXCEPT ![gid] = out.group]
                                                ELSE groups
                /\ last' = [NoCall EXCEPT !.op = "update_subscription_fee",
                                          !.caller = sender, !.group = gid, !.key = cid,
                                          !.payment = new_fee, !.now = now,
                                          !.res = out.res,
                                          !.pre_fee = g.subscription_fee]
    /\ UNCHANGED <<now, next_id, admin_caps, subs, keys, reports, received, cap, txs, uploads>>

\* is_subscription_valid
IsSubscriptionValid(sid, gid) ==
    /\ Idle
    /\ gid \in GroupIds
    /\ \E s \in subs :
          /\ s.id = sid
          /\ last' = [NoCall EXCEPT !.op = "is_subscription_valid", !.sub = sid,
                                    !.group = gid, !.now = now,
                                    !.res = IF check_subscription_valid(s, groups[gid], now)
                                            THEN "true" ELSE "false"]
    /\ UNCHANGED <<now, next_id, groups, admin_caps, subs, keys, reports, received, cap, txs, uploads>>

\* seal_approve, called with the shared PackageVersion
SealApprove(key_id, sid, gid) ==
    /\ Idle
    /\ gid \in GroupIds
    /\ \E s \in subs :
          /\ s.id = sid
          /\ last' = [NoCall EXCEPT !.op = "seal_approve", !.sub = sid, !.group = gid,
                                    !.key_id = key_id, !.now = now,
                                    !.res = seal_approve(key_id, s, groups[gid], now,
                                                         PackageVersion).res]
    /\ UNCHANGED <<now, next_id, groups, admin_caps, subs, keys, reports, received, cap, txs, uploads>>

\* seal_access::is_access_key_valid
IsAccessKeyValid(kid) ==
    /\ Idle
    /\ \E k \in keys :
          /\ k.id = kid
          /\ last' = [NoCall EXCEPT !.op = "is_access_key_valid", !.key = kid, !.now = now,
                                    !.res = IF is_access_key_valid(k, now)
                                            THEN "true" ELSE "false"]
    /\ UNCHANGED <<now, next_id, groups, admin_caps, subs, keys, reports, received, cap, txs, uploads>>

\* seal_access::verify_key_namespace applied to a namespace and a key identifier
VerifyKeyNamespace(namespace, key_id) ==
    /\ Idle
    /\ last' = [NoCall EXCEPT !.op = "verify_key_namespace", !.key_id = key_id,
                              !.args = <<namespace>>, !.now = now,
                              !.res = IF verify_key_namespace(namespace, key_id)
                                      THEN "OK" ELSE "EInvalidKeyNamespace"]
    /\ UNCHANGED <<now, next_id, groups, admin_caps, subs, keys, reports, received, cap, txs, uploads>>

\* request_report_access that uses the AccessKey up when it grants access
RequestReportAccess_consumes_key(kid, rid, gid) ==
    /\ Idle
    /\ gid \in GroupIds
    /\ \E k \in keys, r \in reports :
          /\ k.id = kid
          /\ r.id = rid
          /\ LET out == request_report_access(k, r, groups[gid], now)
             IN /\ cap' = IF out.res = "OK" THEN out.cap ELSE NoCap
                /\ keys' = IF out.res = "OK" THEN keys \ {k} ELSE keys
                /\ last' = [NoCall EXCEPT !.op = "request_report_access", !.key = kid,
                                          !.report = rid, !.group = gid, !.now = now,
                                          !.res = out.res]
    /\ UNCHANGED <<now, next_id, groups, admin_caps, subs, reports, received, txs, uploads>>

\* request_report_access: on success the capability is in flight until it is consumed.
RequestReportAccess(kid, rid, gid) ==
    /\ Idle
    /\ gid \in GroupIds
    /\ \E k \in keys, r \in reports :
          /\ k.id = kid
          /\ r.id = rid
          /\ LET out == request_report_access(k, r, groups[gid], now)
             IN /\ cap' = IF out.res = "OK" THEN out.cap ELSE NoCap
                /\ last' = [NoCall EXCEPT !.op = "request_report_access", !.key = kid,
                                          !.report = rid, !.group = gid, !.now = now,
                                          !.res = out.res]
    /\ UNCHANGED <<now, next_id, groups, admin_caps, subs, keys, reports, received, txs, uploads>>

\* get_decryption_capability_info on the capability in flight
GetDecryptionCapabilityInfo ==
    /\ ~Idle
    /\ last' = [last EXCEPT !.op = "get_decryption_capability_info",
                            !.ret = get_decryption_capability_info(cap)]
    /\ UNCHANGED <<now, next_id, groups, admin_caps, subs, keys, reports, received, cap, txs, uploads>>

\* consume_decryption_capability ends the transaction that requested access
ConsumeDecryptionCapability ==
    /\ ~Idle
    /\ cap' = NoCap
    /\ last' = [last EXCEPT !.op = "consume_decryption_capability",
                            !.ret = consume_decryption_capability(cap)]
    /\ UNCHANGED <<now, next_id, groups, admin_caps, subs, keys, reports, received, txs, uploads>>

\* ---------------------------------------------------------------- off-chain calls
\* PublishReport.tsx handleSubmit: uploadToWalrus encrypts the file, hands the key
\* to the key service, drops the payload the service returns and keeps the key
\* identifier encryptFile made; publish_report_entry is then called with it.
HandleSubmit(sender, gid, cid, encryption_key, iv, random) ==
    LET keyId == encryptFile_keyId(gid, random)
        payload == storeKey(keyId, encryption_key, iv)
    IN /\ PublishReportCall(sender, gid, cid, keyId)
       /\ uploads' = IF last'.res = "OK"
                     THEN uploads \cup {[report |-> last'.report, group |-> gid,
                                         key_id |-> keyId,
                                         encryption_key |-> encryption_key,
                                         payload |-> payload]}
                     ELSE uploads

\* POST /seal/retrieve-key with a key identifier (a string or a byte array) and
\* the ids of the proofs the request names (NoId for none)
RetrieveKeyRoute(keyId, subscriptionProof, accessKeyId) ==
    /\ Idle
    /\ LET out == retrieve_key_route(keyId, subscriptionProof, accessKeyId)
       IN last' = [NoCall EXCEPT !.op = "retrieve_key", !.sub = subscriptionProof,
                                 !.key = accessKeyId, !.args = <<keyId>>, !.now = now,
                                 !.res = IF out.status = 200 THEN "OK" ELSE "404",
                                 !.ret = <<out.encryptionKey>>]
    /\ UNCHANGED <<now, next_id, groups, admin_caps, subs, keys, reports, received, cap, txs, uploads>>

\* ViewReport.tsx handleDecryptAndView, with the AccessKey found for the report's
\* group among the viewer's objects: the expiry check, then retrieveKeyFromSeal
\* with the report's seal_key_id as a byte array.
HandleDecryptAndView(kid, rid) ==
    /\ Idle
    /\ \E k \in keys, r \in reports :
          /\ k.id = kid
          /\ r.id = rid
          /\ k.group_id = r.group_id
          /\ LET out == retrieve_key_route([type |-> "bytes", value |-> r.seal_key_id],
                                           NoId, kid)
                 call == [NoCall EXCEPT !.op = "view_report", !.key = kid, !.report = rid,
                                        !.group = r.group_id, !.now = now]
             IN last' = IF view_gate_refuses(k.expires_at, now)
                        THEN [call EXCEPT !.res = "expired"]
                        ELSE IF out.status = 200
                        THEN [call EXCEPT !.res = "OK", !.ret = <<out.encryptionKey>>]
                        ELSE [call EXCEPT !.res = "error"]
    /\ UNCHANGED <<now, next_id, groups, admin_caps, subs, keys, reports, received, cap, txs, uploads>>

\* POST /seal/verify-access
VerifyAccess(key_id, sid, gid) ==
    /\ Idle
    /\ LET subscription == IF sid \in {s.id : s \in subs} THEN SubById(sid) ELSE NoObject
       IN last' = [NoCall EXCEPT !.op = "verify_access", !.sub = sid, !.group = gid,
                                 !.key_id = key_id, !.now = now,
                                 !.res = IF verifyAccess(key_id, subscription, gid, now)
                                         THEN "true" ELSE "false"]
    /\ UNCHANGED <<now, next_id, groups, admin_caps, subs, keys, reports, received, cap, txs, uploads>>

\* isSubscriptionExpired on a Subscription's expires_at
IsSubscriptionExpired(sid) ==
    /\ Idle
    /\ \E s \in subs :
          /\ s.id = sid
          /\ last' = [NoCall EXCEPT !.op = "is_subscription_expired", !.sub = sid,
                                    !.group = s.group_id, !.now = now,
                                    !.res = IF isSubscriptionExpired(s.expires_at, now)
                                            THEN "true" ELSE "false"]
    /\ UNCHANGED <<now, next_id, groups, admin_caps, subs, keys, reports, received, cap, txs, uploads>>

\* ---------------------------------------------------------------- specifications
AdminCapIds == {c.id : c \in admin_caps}
SubIds == {s.id : s \in subs}
KeyIds == {k.id : k \in keys}
ReportIds == {r.id : r \in reports}

\* Key identifiers a publisher may choose: the namespace of a group alone, followed
\* by one more byte, cut short by one byte, and the empty one.
SealKeyIds(gids) ==
    {<<>>} \cup UNION {{id_to_bytes(g),
                        id_to_bytes(g) \o <<0>>,
                        SubSeq(id_to_bytes(g), 1, IdLen - 1)} : g \in gids}

\* Key identifiers that are empty or the bare namespace of a group.
NamespaceKeyIds(gids) == {<<>>} \cup {id_to_bytes(g) : g \in gids}

\* Spec: every state-changing operation of the group module on one group of one
\* owner, created when the clock starts, with one subscriber, for every member
\* limit and time, with payments below and at the fee.
Next ==
    \/ Tick
    \/ \E m \in MemberCaps :
          /\ now = 0
          /\ GroupIds = {}
          /\ CreateGroup("alice", "d0", 1, 1, m)
    \/ \E g \in GroupIds, p \in {0, 1} : Subscribe("bob", g, p, "tg1")
    \/ \E g \in GroupIds, p \in {0, 1} : SubscribeWithAccessKey("bob", g, p, "tg1")
    \/ \E g \in GroupIds, c \in AdminCapIds : PublishReport("alice", g, c, id_to_bytes(g))
    \/ \E g \in GroupIds, c \in AdminCapIds, d \in Descriptions :
          UpdateGroupDescription("alice", g, c, d)
    \/ \E g \in GroupIds, c \in AdminCapIds, f \in Fees :
          UpdateSubscriptionFee("alice", g, c, f)

Spec == Init /\ [][Next]_vars

\* SpecLedger: the subscriptions of one group created when the clock starts, for
\* every fee, period and member limit, every subscriber (the owner included) and
\* every payment.
NextLedger ==
    \/ Tick
    \/ \E f \in Fees, p \in Periods, m \in MemberCaps :
          /\ now = 0
          /\ GroupIds = {}
          /\ CreateGroup("alice", "d0", f, p, m)
    \/ \E s \in Principals, g \in GroupIds, p \in Payments, t \in TelegramIds :
          Subscribe(s, g, p, t)
    \/ \E s \in Principals, g \in GroupIds, p \in Payments, t \in TelegramIds :
          SubscribeWithAccessKey(s, g, p, t)
    \/ \E s \in Principals, g \in GroupIds, c \in AdminCapIds, f \in Fees :
          UpdateSubscriptionFee(s, g, c, f)

SpecLedger == Init /\ [][NextLedger]_vars

\* SpecAccess: up to MaxGroups groups of one owner and their reports, under every
\* key identifier of SealKeyIds, created when the clock starts; subscribers that
\* pay the exact fee at any time and get an AccessKey; the access checks at every
\* time, seal_approve with the key identifier of a published report.
\* (No access check reads created_at or published_at.)
NextAccess ==
    \/ Tick
    \/ /\ now = 0
       /\ Cardinality(GroupIds) < MaxGroups
       /\ CreateGroup("alice", "d0", 1, 1, 0)
    \/ \E g \in GroupIds : SubscribeWithAccessKey("bob", g, 1, "tg1")
    \/ \E g \in GroupIds, c \in AdminCapIds, k \in SealKeyIds(GroupIds) :
          now = 0 /\ PublishReport("alice", g, c, k)
    \/ \E s \in SubIds, g \in GroupIds : IsSubscriptionValid(s, g)
    \/ \E r \in reports, s \in SubIds, g \in GroupIds : SealApprove(r.seal_key_id, s, g)
    \/ \E k \in KeyIds : IsAccessKeyValid(k)
    \/ \E k \in KeyIds, r \in ReportIds, g \in GroupIds : RequestReportAccess(k, r, g)
    \/ GetDecryptionCapabilityInfo
    \/ ConsumeDecryptionCapability

SpecAccess == Init /\ [][NextAccess]_vars

\* SpecExpiry: one group with every subscription period; a subscriber that
\* subscribes, with and without an AccessKey, before and after an earlier
\* Subscription has expired; fee changes and reports at every time; the two
\* validity checks at every time.
NextExpiry ==
    \/ Tick
    \/ \E p \in Periods :
          /\ now = 0
          /\ GroupIds = {}
          /\ CreateGroup("alice", "d0", 1, p, 0)
    \/ \E g \in GroupIds : Subscribe("bob", g, groups[g].subscription_fee, "tg1")
    \/ \E g \in GroupIds :
          SubscribeWithAccessKey("bob", g, groups[g].subscription_fee, "tg1")
    \/ \E g \in GroupIds, c \in AdminCapIds, f \in Fees :
          UpdateSubscriptionFee("alice", g, c, f)
    \/ \E g \in GroupIds, c \in AdminCapIds : PublishReport("alice", g, c, id_to_bytes(g))
    \/ \E s \in SubIds, g \in GroupIds : IsSubscriptionValid(s, g)
    \/ \E k \in KeyIds : IsAccessKeyValid(k)

SpecExpiry == Init /\ [][NextExpiry]_vars

\* SpecConcurrent: one group with a member limit, created when the clock starts;
\* the principals submit subscribe transactions with the exact fee at any time,
\* also while another one is waiting, and the transactions execute in any order.
NextConcurrent ==
    \/ Tick
    \/ \E m \in 1..MaxSubs :
          /\ now = 0
          /\ GroupIds = {}
          /\ CreateGroup("alice", "d0", 1, 1, m)
    \/ \E s \in Principals, g \in GroupIds :
          SubmitSubscribe(s, g, groups[g].subscription_fee)
    \/ \E s \in Principals : ExecuteSubscribe(s)

SpecConcurrent == Init /\ [][NextConcurrent]_vars

\* SpecAdmin: two groups created when the clock starts, the first by one principal
\* and the second by any; every principal calls the three admin functions on every
\* group with every GroupAdminCap it holds, at every time, publishing under the
\* empty key identifier and under every group's namespace.
NextAdmin ==
    \/ Tick
    \/ \E s \in Principals :
          /\ now = 0
          /\ Cardinality(GroupIds) < 2
          /\ GroupIds = {} => s = "alice"
          /\ CreateGroup(s, "d0", 1, 1, 0)
    \/ \E s \in Principals, g \in GroupIds, c \in AdminCapIds, k \in NamespaceKeyIds(GroupIds) :
          PublishReport(s, g, c, k)
    \/ \E s \in Principals, g \in GroupIds, c \in AdminCapIds :
          UpdateGroupDescription(s, g, c, "d1")
    \/ \E s \in Principals, g \in GroupIds, c \in AdminCapIds :
          UpdateSubscriptionFee(s, g, c, 0)

SpecAdmin == Init /\ [][NextAdmin]_vars

\* SpecCreate: two groups created at any time, the first by any principal with
\* every fee, period and member limit, the second by any principal; after a
\* creation one principal subscribes once and the principals publish one report
\* and change the fee with every GroupAdminCap they hold.
NextCreate ==
    \/ Tick
    \/ \E s \in Principals, f \in Fees, p \in Periods, m \in MemberCaps :
          /\ GroupIds = {}
          /\ CreateGroup(s, "d0", f, p, m)
    \/ \E s \in Principals :
          /\ Cardinality(GroupIds) = 1
          /\ CreateGroup(s, "d1", 1, 1, 0)
    \/ \E g \in GroupIds :
          /\ subs = {}
          /\ Subscribe("bob", g, groups[g].subscription_fee, "tg1")
    \/ \E s \in Principals, g \in GroupIds, c \in AdminCapIds :
          /\ reports = {}
          /\ PublishReport(s, g, c, <<>>)
    \/ \E s \in Principals, g \in GroupIds, c \in AdminCapIds :
          UpdateSubscriptionFee(s, g, c, 0)

SpecCreate == Init /\ [][NextCreate]_vars

\* Every byte string of at most n bytes.
ByteSeqs(n) == UNION {[1..m -> 0..(ByteBase - 1)] : m \in 0..n}

\* SpecPrefix: the two namespace checks on every key identifier of at most
\* IdLen + 1 bytes: verify_key_namespace with every namespace of at most IdLen
\* bytes, seal_approve with two groups and one Subscription. The checks change
\* nothing but the record of the last call, so each one is made in a state that
\* create_group or subscribe has left.
NextPrefix ==
    \/ /\ Cardinality(GroupIds) < 2
       /\ CreateGroup("alice", "d0", 1, 1, 0)
    \/ \E g \in GroupIds :
          /\ subs = {}
          /\ Subscribe("bob", g, 1, "tg1")
    \/ /\ last.op \in {"create_group", "subscribe"}
       /\ \E k \in ByteSeqs(IdLen + 1), s \in SubIds, g \in GroupIds : SealApprove(k, s, g)
    \/ /\ last.op \in {"none", "create_group", "subscribe"}
       /\ \E n \in ByteSeqs(IdLen), k \in ByteSeqs(IdLen + 1) : VerifyKeyNamespace(n, k)

SpecPrefix == Init /\ [][NextPrefix]_vars

\* The key identifiers a request to the key service may carry: a published
\* report's seal_key_id as a byte array, and a payload the service has returned, as
\* the string it was and as TextEncoder's bytes of it.
KeyIdInputs ==
    {[type |-> "bytes", value |-> r.seal_key_id] : r \in reports}
    \cup {[type |-> "string", value |-> u.payload] : u \in uploads}
    \cup {[type |-> "bytes", value |-> TextEncode(u.payload)] : u \in uploads}

\* SpecSeal: the key service and the two frontend handlers beside the chain: two
\* groups of one owner created when the clock starts, one subscriber with one
\* AccessKey, one report published by handleSubmit with every encryption key and IV;
\* the key service asked at every time with and without proofs, the viewer's
\* handler and the off-chain expiry and access checks at every time.
NextSeal ==
    \/ Tick
    \/ /\ now = 0
       /\ Cardinality(GroupIds) < 2
       /\ CreateGroup("alice", "d0", 1, 1, 0)
    \/ \E g \in GroupIds :
          /\ subs = {}
          /\ SubscribeWithAccessKey("bob", g, 1, "tg1")
    \/ \E g \in GroupIds, c \in AdminCapIds, k \in EncryptionKeys, iv \in Ivs :
          /\ reports = {}
          /\ HandleSubmit("alice", g, c, k, iv, 0)
    \/ \E i \in KeyIdInputs, s \in SubIds \cup {NoId}, k \in KeyIds \cup {NoId} :
          RetrieveKeyRoute(i, s, k)
    \/ \E k \in KeyIds, r \in ReportIds : HandleDecryptAndView(k, r)
    \/ \E r \in reports, s \in SubIds \cup {NoId}, g \in GroupIds :
          VerifyAccess(r.seal_key_id, s, g)
    \/ \E s \in SubIds : IsSubscriptionExpired(s)

SpecSeal == Init /\ [][NextSeal]_vars

\* ---------------------------------------------------------------- properties
\* "b begins with a": b is at least as long as a and its first Len(a) bytes are a.
BeginsWith(a, b) == Len(b) >= Len(a) /\ SubSeq(b, 1, Len(a)) = a

SubscribeOps == {"subscribe", "subscribe_with_access_key"}
AccessOps == {"request_report_access", "get_decryption_capability_info",
              "consume_decryption_capability"}

\* C1: is_subscription_valid(subscription, group, now) is true exactly when the
\* subscription's group_id is the group's id and now <= expires_at; for the
\* subscription's own group it is true at now = expires_at and false at expires_at + 1.
C1_IsValidIffGroupAndTime ==
    last.op = "is_subscription_valid" =>
        LET s == SubById(last.sub)
        IN /\ (last.res = "true") <=> (s.group_id = last.group /\ last.now <= s.expires_at)
           /\ (s.group_id = last.group /\ last.now = s.expires_at) => last.res = "true"
           /\ (s.group_id = last.group /\ last.now = s.expires_at + 1) => last.res = "false"

C1_Witness_ExpiredOneTickAfter ==
    /\ last.op = "is_subscription_valid"
    /\ SubById(last.sub).group_id = last.group
    /\ last.now = SubById(last.sub).expires_at + 1
    /\ last.res = "false"

\* C5: request_report_access reports the first failing check in the order expiry,
\* group, namespace: an expired key gives ESubscriptionExpired whatever else is
\* wrong, an unexpired key of another group gives EUnauthorized whatever the key
\* identifier, an unexpired key of the group with a key identifier that does not
\* begin with the key's namespace gives EInvalidKeyNamespace, and a capability is
\* returned exactly when the three checks pass.
C5_ChecksInOrder ==
    last.op = "request_report_access" =>
        LET k == KeyById(last.key)
            r == ReportById(last.report)
            expired == last.now > k.expires_at
            foreign == k.group_id # last.group
            misfit == ~BeginsWith(k.namespace, r.seal_key_id)
        IN /\ expired => last.res = "ESubscriptionExpired"
           /\ (~expired /\ foreign) => last.res = "EUnauthorized"
           /\ (~expired /\ ~foreign /\ misfit) => last.res = "EInvalidKeyNamespace"
           /\ (last.res = "OK") <=> (~expired /\ ~foreign /\ ~misfit)
           /\ (cap # NoCap) <=> (last.res = "OK")

C5_Witness_ExpiredWinsOverAll ==
    /\ last.op = "request_report_access"
    /\ last.now > KeyById(last.key).expires_at
    /\ KeyById(last.key).group_id # last.group
    /\ ~BeginsWith(KeyById(last.key).namespace, ReportById(last.report).seal_key_id)
    /\ last.res = "ESubscriptionExpired"

\* C6: request_report_access never returns a capability for a report whose
\* group_id differs from the key's group_id, whatever group is passed, so a
\* capability is only returned for a report whose key identifier begins with the
\* namespace of the report's own group.
C6_NoCapabilityForForeignReport ==
    (last.op = "request_report_access" /\ last.res = "OK") =>
        LET k == KeyById(last.key)
            r == ReportById(last.report)
        IN /\ r.group_id = k.group_id
           /\ BeginsWith(id_to_bytes(r.group_id), r.seal_key_id)

\* The report's key identifier begins with the namespace of a group other than the key's.
CarriesForeignNamespace(k, r) ==
    \E g2 \in GroupIds : g2 # k.group_id /\ BeginsWith(id_to_bytes(g2), r.seal_key_id)

\* C7 as stated: the namespaces of two groups differ, and a key minted under one
\* group fails against a report whose key identifier begins with another group's
\* namespace, at any time, with EInvalidKeyNamespace or EUnauthorized.
C7_Original_NamespaceOrUnauthorizedAtAnyTime ==
    /\ \A g1 \in GroupIds, g2 \in GroupIds : g1 # g2 => id_to_bytes(g1) # id_to_bytes(g2)
    /\ (last.op = "request_report_access"
        /\ CarriesForeignNamespace(KeyById(last.key), ReportById(last.report)))
       => last.res \in {"EInvalidKeyNamespace", "EUnauthorized"}

\* C7 amended: the namespaces of two groups differ, and a key minted under one
\* group fails against a report whose key identifier begins with another group's
\* namespace, at any time and for any group passed: with ESubscriptionExpired when
\* now > the key's expires_at, otherwise with EInvalidKeyNamespace or EUnauthorized.
C7_NamespaceIsolation ==
    /\ \A g1 \in GroupIds, g2 \in GroupIds : g1 # g2 => id_to_bytes(g1) # id_to_bytes(g2)
    /\ (last.op = "request_report_access"
        /\ CarriesForeignNamespace(KeyById(last.key), ReportById(last.report)))
       => IF last.now > KeyById(last.key).expires_at
          THEN last.res = "ESubscriptionExpired"
          ELSE last.res \in {"EInvalidKeyNamespace", "EUnauthorized"}

C7_Witness_OwnGroupForeignNamespace ==
    /\ last.op = "request_report_access"
    /\ CarriesForeignNamespace(KeyById(last.key), ReportById(last.report))
    /\ KeyById(last.key).group_id = last.group
    /\ last.now <= KeyById(last.key).expires_at
    /\ last.res = "EInvalidKeyNamespace"

\* C8: the capability returned by request_report_access carries the id and the
\* key identifier of the report passed and the time of the call, and
\* get_decryption_capability_info and consume_decryption_capability return that
\* report's (id, key identifier) pair, which is the pair of no other report.
C8_CapabilityIsTheReports ==
    /\ cap # NoCap =>
          /\ last.op \in {"request_report_access", "get_decryption_capability_info"}
          /\ cap.report_id = last.report
          /\ cap.key_id = ReportById(last.report).seal_key_id
          /\ cap.verified_at = last.now
          /\ last.now = now
    /\ last.op \in {"get_decryption_capability_info", "consume_decryption_capability"} =>
          /\ last.ret = <<last.report, ReportById(last.report).seal_key_id>>
          /\ \A r \in reports : r.id = last.ret[1] => r = ReportById(last.report)

C8_Witness_ConsumedLongKeyId ==
    /\ last.op = "consume_decryption_capability"
    /\ cap = NoCap
    /\ Len(ReportById(last.report).seal_key_id) > IdLen
    /\ last.ret = <<last.report, ReportById(last.report).seal_key_id>>

\* C2 as stated: subscribe succeeds exactly when the payment equals the group's
\* current fee, and a payment of another value fails with EInvalidFee and leaves
\* current_members as it was.
C2_Original_SucceedsIffExactFee ==
    last.op \in SubscribeOps =>
        /\ (last.res = "OK") <=> (last.payment = last.pre_fee)
        /\ last.payment # last.pre_fee =>
              /\ last.res = "EInvalidFee"
              /\ groups[last.group].current_members = last.pre_members

\* C2 amended: subscribe succeeds exactly when the payment equals the group's
\* current fee, the group is not full (max_members = 0 or current_members <
\* max_members) and neither current_members + 1 nor now + subscription_period
\* exceeds the u64 range; a payment of another value fails with EInvalidFee and
\* leaves current_members as it was.
C2_SucceedsIffExactFeeAndRoom ==
    last.op \in SubscribeOps =>
        LET g == groups[last.group]
        IN /\ (last.res = "OK") <=>
                 /\ last.payment = last.pre_fee
                 /\ (g.max_members = 0 \/ last.pre_members < g.max_members)
                 /\ last.pre_members + 1 <= MAX_U64
                 /\ last.now + g.subscription_period <= MAX_U64
           /\ last.payment # last.pre_fee =>
                 /\ last.res = "EInvalidFee"
                 /\ g.current_members = last.pre_members

C2_Witness_OverpaymentRejected ==
    /\ last.op = "subscribe"
    /\ last.payment > last.pre_fee
    /\ last.res = "EInvalidFee"
    /\ groups[last.group].current_members = last.pre_members
    /\ last.pre_members > 0

SubsOf(gid) == {s \in subs : s.group_id = gid}

\* C3: when a group with max_members = M > 0 has had M successful subscribe calls,
\* the next subscribe call with the exact fee fails with EGroupFull and
\* current_members stays M.
C3_FullGroupRejects ==
    last.op \in SubscribeOps =>
        LET g == groups[last.group]
            minted == IF last.res = "OK" THEN 1 ELSE 0
        IN (/\ g.max_members > 0
            /\ Cardinality(SubsOf(last.group)) - minted = g.max_members
            /\ last.payment = last.pre_fee)
           => /\ last.res = "EGroupFull"
              /\ g.current_members = g.max_members

C3_Witness_NextCallOnFullGroup ==
    /\ last.op \in SubscribeOps
    /\ groups[last.group].max_members > 0
    /\ Cardinality(SubsOf(last.group)) = groups[last.group].max_members
    /\ last.payment = last.pre_fee
    /\ last.res = "EGroupFull"

\* C4: in every reachable state every group with max_members > 0 has
\* current_members <= max_members.
C4_MembersWithinLimit ==
    \A gid \in GroupIds :
        groups[gid].max_members > 0 => groups[gid].current_members <= groups[gid].max_members

C4_Witness_FullGroupAfterAdminCalls ==
    \E gid \in GroupIds :
        /\ groups[gid].max_members > 0
        /\ groups[gid].current_members = groups[gid].max_members
        /\ groups[gid].report_count > 0
        /\ groups[gid].description = "d1"
        /\ groups[gid].subscription_fee = 0
        /\ last.op \in SubscribeOps
        /\ last.res = "EGroupFull"

\* C9: a successful subscribe mints a Subscription of the group, owned by the
\* caller, with the telegram id passed, subscribed_at = now and
\* expires_at = now + the group's subscription_period.
C9_MintedSubscription ==
    (last.op \in SubscribeOps /\ last.res = "OK") =>
        /\ Cardinality({s \in subs : s.id = last.sub}) = 1
        /\ LET s == SubById(last.sub)
           IN /\ s.group_id = last.group
              /\ s.subscriber = last.caller
              /\ s.telegram_id = last.telegram_id
              /\ s.subscribed_at = last.now
              /\ s.expires_at = last.now + groups[last.group].subscription_period

C9_Witness_SubscriberIsNotOwner ==
    /\ last.op = "subscribe"
    /\ last.res = "OK"
    /\ last.now > 0
    /\ groups[last.group].subscription_period > 0
    /\ groups[last.group].owner # last.caller
    /\ SubById(last.sub).expires_at = last.now + groups[last.group].subscription_period

\* C10: every AccessKey of subscribe_with_access_key carries the group's id, the id
\* of the Subscription minted in the same call, the namespace id_to_bytes(group id),
\* created_at = now and the Subscription's expires_at; no later step changes a key.
C10_KeyMirrorsSubscription ==
    /\ [](\A k \in keys :
            /\ k.namespace = id_to_bytes(k.group_id)
            /\ k.group_id \in GroupIds
            /\ \E s \in subs :
                  /\ s.id = k.subscription_id
                  /\ s.group_id = k.group_id
                  /\ s.subscribed_at = k.created_at
                  /\ s.expires_at = k.expires_at)
    /\ []((last.op = "subscribe_with_access_key" /\ last.res = "OK") =>
            LET k == KeyById(last.key)
            IN /\ k.group_id = last.group
               /\ k.subscription_id = last.sub
               /\ k.created_at = last.now
               /\ k.expires_at = SubById(last.sub).expires_at)
    /\ [][\A k \in keys : k \in keys']_vars

C10_Witness_KeyOutlivedByLaterCalls ==
    /\ \E k \in keys : k.expires_at > k.created_at /\ now > k.expires_at
    /\ last.op = "update_subscription_fee"
    /\ last.res = "OK"
    /\ last.payment # last.pre_fee

\* C11: is_access_key_valid(key, now) is true exactly when now <= the key's
\* expires_at; request_report_access with a key of the group passed and a report
\* whose key identifier begins with the key's namespace returns a capability at
\* now = expires_at and fails with ESubscriptionExpired at now = expires_at + 1.
C11_KeyValidUpToExpiry ==
    /\ last.op = "is_access_key_valid" =>
          ((last.res = "true") <=> (last.now <= KeyById(last.key).expires_at))
    /\ last.op = "request_report_access" =>
          LET k == KeyById(last.key)
              r == ReportById(last.report)
          IN (k.group_id = last.group /\ BeginsWith(k.namespace, r.seal_key_id)) =>
                /\ last.now = k.expires_at => (last.res = "OK" /\ cap.report_id = r.id)
                /\ last.now = k.expires_at + 1 => last.res = "ESubscriptionExpired"

C11_Witness_RefusedOneTickAfterExpiry ==
    /\ last.op = "request_report_access"
    /\ KeyById(last.key).group_id = last.group
    /\ BeginsWith(KeyById(last.key).namespace, ReportById(last.report).seal_key_id)
    /\ last.now = KeyById(last.key).expires_at + 1
    /\ last.res = "ESubscriptionExpired"

\* C12: seal_approve succeeds exactly when the package version matches, the
\* subscription's group_id is the group's id, now <= the subscription's expires_at
\* and the key identifier begins with the group's namespace; a subscription that is
\* expired or of another group fails with ESubscriptionExpired whatever the key
\* identifier, and with a valid subscription a key identifier without the
\* namespace prefix (or shorter than it) fails with the abort the group module
\* keeps for that case alone, EInvalidSubscription.
C12_SealApproveChecksInOrder ==
    last.op = "seal_approve" =>
        LET s == SubById(last.sub)
            valid == s.group_id = last.group /\ last.now <= s.expires_at
            prefixed == BeginsWith(id_to_bytes(last.group), last.key_id)
        IN /\ (last.res = "OK") <=>
                 (PackageVersion.version = VERSION /\ valid /\ prefixed)
           /\ ~valid => last.res = "ESubscriptionExpired"
           /\ (valid /\ ~prefixed) => last.res = "EInvalidSubscription"

C12_Witness_ExpiredBeforeKeyIsRead ==
    /\ last.op = "seal_approve"
    /\ SubById(last.sub).group_id = last.group
    /\ last.now > SubById(last.sub).expires_at
    /\ ~BeginsWith(id_to_bytes(last.group), last.key_id)
    /\ Len(last.key_id) > 0
    /\ last.res = "ESubscriptionExpired"

\* A step that is a call of subscribe or subscribe_with_access_key. (A failing call
\* repeated with the same arguments leaves every variable as it was.)
SubscribeStep == last' # last /\ last'.op \in SubscribeOps

\* C13: a successful subscribe adds the whole payment to what the group's owner
\* has received, increments current_members by exactly 1, changes no other field
\* of any group and mints exactly one Subscription; a failed one (EInvalidFee,
\* EGroupFull, or an arithmetic abort) forwards nothing, mints nothing and leaves
\* every group as it was; no other step forwards anything, so the total forwarded
\* is the sum of the payments of the successful calls.
C13_SubscribeAllOrNothing ==
    [][/\ SubscribeStep =>
             LET gid == last'.group
             IN IF last'.res = "OK"
                THEN /\ received' = [received EXCEPT ![groups[gid].owner] =
                                                         @ + last'.payment]
                     /\ groups' = [groups EXCEPT ![gid].current_members = @ + 1]
                     /\ subs \subseteq subs'
                     /\ Cardinality(subs' \ subs) = 1
                ELSE /\ last'.res \in {"EInvalidFee", "EGroupFull", "ARITHMETIC_ERROR"}
                     /\ UNCHANGED <<received, groups, subs, keys, next_id>>
       /\ ~SubscribeStep => received' = received]_vars

C13_Witness_FailureAfterTwoPayments ==
    /\ received["alice"] = 2
    /\ received["bob"] = 0
    /\ Cardinality(subs) = 2
    /\ \E s \in subs : s.subscriber = "bob"
    /\ last.op = "subscribe"
    /\ last.res = "EInvalidFee"
    /\ last.payment > 0

\* C14: a call of subscribe_with_access_key fails exactly when, and with the error
\* with which, subscribe fails on the same group state, payment and time, and
\* succeeds exactly when subscribe succeeds; when it fails, the sets of AccessKeys
\* and of Subscriptions and the group's current_members are what they were.
C14_FailsAsSubscribeFails ==
    [][(last' # last /\ last'.op = "subscribe_with_access_key") =>
          LET c == last'
              plain == subscribe(groups[c.group], c.payment, c.telegram_id, now,
                                 c.caller, next_id)
          IN /\ c.res = plain.res
             /\ c.res = "OK" =>
                   /\ groups'[c.group] = plain.group
                   /\ subs' = subs \cup {plain.subscription}
                   /\ Cardinality(keys' \ keys) = 1
             /\ c.res # "OK" =>
                   /\ keys' = keys
                   /\ subs' = subs
                   /\ c.key = NoId
                   /\ c.sub = NoId
                   /\ groups'[c.group].current_members = groups[c.group].current_members
      ]_vars

C14_Witness_FullGroupIssuesNoKey ==
    /\ last.op = "subscribe_with_access_key"
    /\ last.res = "EGroupFull"
    /\ last.payment = last.pre_fee
    /\ keys = {}
    /\ Cardinality(subs) = 1

AdminOps == {"publish_report", "update_group_description", "update_subscription_fee"}
AdminCapById(cid) == CHOOSE c \in admin_caps : c.id = cid

\* C15: publish_report, update_subscription_fee and update_group_description
\* called on a group with a GroupAdminCap of another group fail with
\* ENotGroupOwner, whether or not the caller is the group's owner, and then no
\* group changes (description, subscription_fee and report_count included) and
\* no Report is created.
C15_ForeignCapIsRefused ==
    [][(/\ last' # last
        /\ last'.op \in AdminOps
        /\ AdminCapById(last'.key).group_id # last'.group)
       => /\ last'.res = "ENotGroupOwner"
          /\ groups' = groups
          /\ reports' = reports
          /\ next_id' = next_id]_vars

C15_Witness_OwnerWithForeignCap ==
    /\ last.op = "publish_report"
    /\ last.caller = groups[last.group].owner
    /\ AdminCapById(last.key).group_id # last.group
    /\ AdminCapById(last.key).holder = last.caller
    /\ last.res = "ENotGroupOwner"
    /\ reports = {}

ReportsOf(gid) == {r \in reports : r.group_id = gid}

\* C16: publish_report with a GroupAdminCap of the group succeeds for every key
\* identifier (the empty one and another group's namespace included) and returns
\* a Report with the group's id, the key identifier passed, publisher = caller and
\* published_at = now; report_count goes up by exactly 1, so that in every state a
\* group's report_count is the number of Reports published under it.
C16_PublishAnyKeyId ==
    /\ \A gid \in GroupIds : groups[gid].report_count = Cardinality(ReportsOf(gid))
    /\ (last.op = "publish_report" /\ AdminCapById(last.key).group_id = last.group) =>
          /\ last.res = "OK"
          /\ Cardinality({r \in reports : r.id = last.report}) = 1
          /\ LET r == ReportById(last.report)
             IN /\ r.group_id = last.group
                /\ r.seal_key_id = last.key_id
                /\ r.publisher = last.caller
                /\ r.published_at = last.now

C16_Witness_ForeignNamespacePublished ==
    /\ last.op = "publish_report"
    /\ last.res = "OK"
    /\ last.now > 0
    /\ \E g \in GroupIds : g # last.group /\ last.key_id = id_to_bytes(g)
    /\ groups[last.group].report_count = 1
    /\ ReportById(last.report).seal_key_id = last.key_id

\* The caller of the call recorded in c held, before it, a Subscription of the
\* group that had not expired.
HoldsUnexpired(c) ==
    \E s \in subs : s.subscriber = c.caller /\ s.group_id = c.group /\ now <= s.expires_at

\* C17: no step changes or removes an existing Subscription, and no two
\* Subscriptions share an id; a caller that holds an unexpired Subscription of the
\* group and subscribes again (exact fee, room in the group, no u64 overflow)
\* succeeds, and the call adds one Subscription with an id no earlier one has and
\* with expires_at = now + subscription_period.
C17_SubscriptionsAreImmutable ==
    /\ [](\A s1 \in subs, s2 \in subs : s1.id = s2.id => s1 = s2)
    /\ [][/\ subs \subseteq subs'
          /\ (SubscribeStep /\ HoldsUnexpired(last')) =>
                LET c == last'
                    g == groups[c.group]
                IN /\ (/\ c.payment = g.subscription_fee
                        /\ (g.max_members = 0 \/ g.current_members < g.max_members)
                        /\ g.current_members + 1 <= MAX_U64
                        /\ now + g.subscription_period <= MAX_U64) => c.res = "OK"
                   /\ c.res = "OK" =>
                         /\ Cardinality(subs') = Cardinality(subs) + 1
                         /\ c.sub \notin SubIds
                         /\ \E s \in subs' \ subs :
                               /\ s.id = c.sub
                               /\ s.subscriber = c.caller
                               /\ s.expires_at = now + g.subscription_period
         ]_vars

C17_Witness_ResubscribedBeforeExpiry ==
    /\ \E s1 \in subs, s2 \in subs :
          /\ s1.subscriber = s2.subscriber
          /\ s1.group_id = s2.group_id
          /\ s1.id # s2.id
          /\ s1.subscribed_at < s2.subscribed_at
          /\ s2.subscribed_at <= s1.expires_at
          /\ s1.expires_at < s2.expires_at
    /\ last.op = "update_group_description"
    /\ last.res = "OK"
    /\ \E gid \in GroupIds : groups[gid].report_count > 0

\* C18: the clock never goes backwards, and once now > expires_at of a
\* Subscription (an AccessKey), check_subscription_valid against every group
\* (is_access_key_valid) is false in every later state, whatever was called in
\* between; a call of is_subscription_valid or is_access_key_valid on an expired
\* object returns false.
C18_ExpiryIsOneWay ==
    /\ [][/\ now' >= now
          /\ \A s \in subs : now > s.expires_at =>
                /\ s \in subs'
                /\ \A gid \in DOMAIN groups' :
                      ~check_subscription_valid(s, groups'[gid], now')
          /\ \A k \in keys : now > k.expires_at =>
                /\ k \in keys'
                /\ ~is_access_key_valid(k, now')]_vars
    /\ []((last.op = "is_subscription_valid"
           /\ last.now > SubById(last.sub).expires_at) => last.res = "false")
    /\ []((last.op = "is_access_key_valid"
           /\ last.now > KeyById(last.key).expires_at) => last.res = "false")

C18_Witness_StillExpiredAfterResubscribing ==
    /\ \E s1 \in subs, s2 \in subs :
          /\ s1.subscriber = s2.subscriber
          /\ s1.group_id = s2.group_id
          /\ s2.subscribed_at > s1.expires_at
          /\ now <= s2.expires_at
          /\ \E k \in keys : k.subscription_id = s1.id /\ now > k.expires_at
          /\ \E r \in reports : r.published_at > s1.expires_at
          /\ last.op = "is_subscription_valid"
          /\ last.sub = s1.id
          /\ last.res = "false"
    /\ \E gid \in GroupIds : groups[gid].subscription_fee = 0

\* Two senders whose transactions on the same group were both submitted with the
\* exact fee while the group had max_members - 1 members, and have both executed.
RacedForLastSeat(p, q) ==
    /\ p # q
    /\ txs[p].st = "executed"
    /\ txs[q].st = "executed"
    /\ txs[p].group = txs[q].group
    /\ LET g == groups[txs[p].group]
       IN /\ g.max_members > 0
          /\ txs[p].seen_members = g.max_members - 1
          /\ txs[q].seen_members = g.max_members - 1
          /\ txs[p].payment = g.subscription_fee
          /\ txs[q].payment = g.subscription_fee

\* C19 as stated: of two subscribe calls with the exact fee submitted while the
\* group has max_members - 1 members, exactly one succeeds, the other fails with
\* EGroupFull, and current_members ends at max_members.
C19_Original_ExactlyOneSucceeds ==
    \A p \in Principals, q \in Principals :
        RacedForLastSeat(p, q) =>
            /\ {txs[p].res, txs[q].res} = {"OK", "EGroupFull"}
            /\ groups[txs[p].group].current_members = groups[txs[p].group].max_members

\* C19 amended: of two such calls exactly one succeeds, the other fails with
\* EGroupFull and current_members ends at max_members, unless now +
\* subscription_period exceeds the u64 range when they execute: then both abort
\* with an arithmetic error and current_members stays at max_members - 1. The
\* call that executes second never sees the count the first one saw.
C19_OneSeatOneWinner ==
    \A p \in Principals, q \in Principals :
        RacedForLastSeat(p, q) =>
            LET g == groups[txs[p].group]
                overflows(x) == txs[x].at + g.subscription_period > MAX_U64
            IN IF overflows(p) /\ overflows(q)
               THEN /\ txs[p].res = "ARITHMETIC_ERROR"
                    /\ txs[q].res = "ARITHMETIC_ERROR"
                    /\ g.current_members = g.max_members - 1
               ELSE /\ {txs[p].res, txs[q].res} = {"OK", "EGroupFull"}
                    /\ g.current_members = g.max_members

C19_Witness_BothSawTheLastSeat ==
    \E p \in Principals, q \in Principals :
        /\ RacedForLastSeat(p, q)
        /\ groups[txs[p].group].max_members > 1
        /\ txs[p].at < txs[q].at
        /\ txs[p].res = "OK"
        /\ txs[q].res = "EGroupFull"
        /\ txs[q].seen_members < groups[txs[q].group].current_members

ReadOps == {"is_subscription_valid", "is_access_key_valid", "request_report_access",
            "seal_approve"}

\* C20: a call of is_subscription_valid, is_access_key_valid,
\* request_report_access or seal_approve, whether it succeeds or fails, leaves
\* every Group (counters included), Subscription, AccessKey, Report and
\* GroupAdminCap, the coins received and the clock as they were.
C20_ChecksChangeNothing ==
    [][(last' # last /\ last'.op \in ReadOps) =>
          UNCHANGED <<groups, subs, keys, reports, admin_caps, received, next_id, now>>
      ]_vars

C20_Witness_GrantedAndNothingMoved ==
    /\ last.op = "request_report_access"
    /\ last.res = "OK"
    /\ cap # NoCap
    /\ KeyById(last.key) \in keys
    /\ groups[last.group].current_members = Cardinality(SubsOf(last.group))
    /\ groups[last.group].report_count = 1
    /\ now > 0

CapsOf(gid) == {c \in admin_caps : c.group_id = gid}

\* C21: create_group returns a Group owned by the caller with no members, no
\* reports, created_at = now and the supplied fee, period and member limit, and one
\* GroupAdminCap bound to the new group's id; in every state each group has exactly
\* one GroupAdminCap bound to it and every cap is bound to a group; only
\* create_group changes the set of caps, and it adds that one cap to it.
C21_FreshGroupWithItsOneCap ==
    /\ [](/\ \A g \in GroupIds : Cardinality(CapsOf(g)) = 1
          /\ \A c \in admin_caps : c.group_id \in GroupIds)
    /\ [][/\ (last' # last /\ last'.op = "create_group") =>
               /\ last'.group \notin GroupIds
               /\ DOMAIN groups' = GroupIds \cup {last'.group}
               /\ groups'[last'.group] =
                     [id |-> last'.group,
                      description |-> groups'[last'.group].description,
                      owner |-> last'.caller,
                      subscription_fee |-> last'.args[1],
                      subscription_period |-> last'.args[2],
                      max_members |-> last'.args[3],
                      current_members |-> 0,
                      report_count |-> 0,
                      created_at |-> now]
               /\ \E c \in admin_caps' \ admin_caps :
                     /\ admin_caps' = admin_caps \cup {c}
                     /\ c.group_id = last'.group
                     /\ c.holder = last'.caller
          /\ admin_caps' # admin_caps => (last' # last /\ last'.op = "create_group")
         ]_vars

\* A second group was created after the clock had moved, by another principal than
\* the first, and a subscription, a report and a fee change followed.
C21_Witness_SecondGroupLater ==
    /\ Cardinality(GroupIds) = 2
    /\ \E g, h \in GroupIds :
          /\ groups[g].owner # groups[h].owner
          /\ groups[g].created_at = 0
          /\ groups[h].created_at > 0
          /\ groups[h].subscription_fee = 0
    /\ subs # {}
    /\ reports # {}
    /\ Cardinality(admin_caps) = 2

\* An is_subscription_valid call on Subscription s and its own group, whose
\* subscription_period is 0.
CheckedZeroPeriod(s) ==
    /\ last.op = "is_subscription_valid"
    /\ last.sub = s.id
    /\ last.group = s.group_id
    /\ groups[s.group_id].subscription_period = 0

\* C22 as stated: a Subscription of a group with subscription_period 0 is invalid at
\* every time from its minting on, the minting instant included.
C22_Original_ZeroPeriodNeverValid ==
    \A s \in subs : CheckedZeroPeriod(s) => last.res = "false"

\* C22: a Subscription of a group with subscription_period 0 has expires_at = its
\* minting time; is_subscription_valid is true at the minting instant and false at
\* every later time.
C22_ZeroPeriodValidOnlyAtMinting ==
    \A s \in subs :
        /\ groups[s.group_id].subscription_period = 0 => s.expires_at = s.subscribed_at
        /\ CheckedZeroPeriod(s) =>
              /\ last.now >= s.subscribed_at
              /\ last.res = "true" <=> last.now = s.subscribed_at

\* A zero-period Subscription minted after the clock had moved is checked one tick
\* after its minting.
C22_Witness_CheckedOneTickAfterMinting ==
    \E s \in subs :
        /\ CheckedZeroPeriod(s)
        /\ s.subscribed_at > 0
        /\ last.now = s.subscribed_at + 1
        /\ last.res = "false"

\* The group has a member limit and has reached it.
IsFull(g) == g.max_members > 0 /\ g.current_members = g.max_members

\* C24: current_members of a group equals the number of Subscriptions minted for
\* it, expired ones included, and never decreases; a full group stays full, and
\* every subscribe call on it with the exact fee fails with EGroupFull and mints
\* nothing, at every later time.
C24_CapacityNeverFrees ==
    /\ [](\A g \in GroupIds : groups[g].current_members = Cardinality(SubsOf(g)))
    /\ [][/\ subs \subseteq subs'
          /\ \A g \in GroupIds :
                /\ g \in DOMAIN groups'
                /\ groups'[g].current_members >= groups[g].current_members
                /\ IsFull(groups[g]) => IsFull(groups'[g])
                /\ (/\ SubscribeStep
                    /\ last'.group = g
                    /\ IsFull(groups[g])
                    /\ last'.payment = groups[g].subscription_fee)
                   => /\ last'.res = "EGroupFull"
                      /\ subs' = subs
                      /\ groups'[g] = groups[g]
         ]_vars

\* A subscribe call with the exact fee fails with EGroupFull on a full group none
\* of whose Subscriptions is valid any more.
C24_Witness_FullAfterAllExpired ==
    /\ last.op \in SubscribeOps
    /\ last.res = "EGroupFull"
    /\ last.group \in GroupIds
    /\ last.payment = groups[last.group].subscription_fee
    /\ SubsOf(last.group) # {}
    /\ \A s \in SubsOf(last.group) : last.now > s.expires_at

\* AccessKey k and Subscription s were minted by one subscribe_with_access_key call.
MintedTogether(k, s) == k.subscription_id = s.id

\* C25: for an AccessKey K and a Subscription S minted by one
\* subscribe_with_access_key call under group G, at every time
\* is_access_key_valid(K) equals check_subscription_valid(S, G), and for every
\* Report, request_report_access(K, report, G) succeeds exactly when
\* seal_approve(report.seal_key_id, S, G) with the matching PackageVersion does;
\* the request_report_access call just made agrees with it too.
C25_ProofModesAgree ==
    \A k \in keys, s \in subs :
        MintedTogether(k, s) =>
            LET G == groups[s.group_id]
            IN /\ k.group_id = s.group_id
               /\ is_access_key_valid(k, now) <=> check_subscription_valid(s, G, now)
               /\ \A r \in reports :
                     /\ request_report_access(k, r, G, now).res = "OK"
                           <=> seal_approve(r.seal_key_id, s, G, now, PackageVersion).res = "OK"
                     /\ (/\ last.op = "request_report_access"
                         /\ last.key = k.id
                         /\ last.report = r.id
                         /\ last.group = G.id)
                        => (last.res = "OK"
                              <=> seal_approve(r.seal_key_id, s, G, last.now,
                                               PackageVersion).res = "OK")

\* At the expiry instant request_report_access has just granted a report passed
\* together with the key's group, and seal_approve accepts the same report's key
\* identifier with the Subscription minted with the key.
C25_Witness_BothGrantAtExpiry ==
    \E k \in keys, s \in subs, r \in reports :
        /\ MintedTogether(k, s)
        /\ now = k.expires_at
        /\ last.op = "request_report_access"
        /\ last.key = k.id
        /\ last.report = r.id
        /\ last.group = k.group_id
        /\ last.now = now
        /\ last.res = "OK"
        /\ seal_approve(r.seal_key_id, s, groups[s.group_id], now, PackageVersion).res = "OK"

\* C26: verify_key_namespace accepts a namespace and a key identifier exactly when
\* the key identifier is at least as long as the namespace and begins with it; a
\* seal_approve call with a Subscription valid for the group succeeds exactly when
\* the key identifier begins with the group's id bytes, which is exactly when
\* verify_key_namespace accepts the two.
C26_PrefixCheckIsBeginsWith ==
    /\ last.op = "verify_key_namespace" =>
          (last.res = "OK" <=> BeginsWith(last.args[1], last.key_id))
    /\ (/\ last.op = "seal_approve"
        /\ check_subscription_valid(SubById(last.sub), groups[last.group], last.now))
       => /\ last.res = "OK" <=> BeginsWith(id_to_bytes(last.group), last.key_id)
          /\ last.res = "OK" <=> verify_key_namespace(id_to_bytes(last.group), last.key_id)
          /\ last.res # "OK" => last.res = "EInvalidSubscription"

\* seal_approve has accepted a key identifier equal to the group's id bytes, for a
\* group whose id does not begin with a zero byte.
C26_Witness_KeyIdIsTheNamespace ==
    /\ last.op = "seal_approve"
    /\ last.res = "OK"
    /\ last.key_id = id_to_bytes(last.group)
    /\ last.key_id[IdLen] # 0

\* C30: every Subscription has subscribed_at <= expires_at = subscribed_at + the
\* group's period <= 2^64 - 1; a subscribe call made when now + subscription_period
\* is beyond 2^64 - 1 fails, with an arithmetic abort if the fee is exact and the
\* group has room, and forwards no payment, leaves the group as it was and mints
\* nothing.
C30_ExpiryNeverWraps ==
    /\ [](\A s \in subs :
             /\ s.expires_at >= s.subscribed_at
             /\ s.expires_at <= MAX_U64
             /\ s.expires_at = s.subscribed_at + groups[s.group_id].subscription_period)
    /\ [][(/\ SubscribeStep
           /\ last'.now + groups[last'.group].subscription_period > MAX_U64)
          => LET g == groups[last'.group]
             IN /\ last'.res # "OK"
                /\ (/\ last'.payment = g.subscription_fee
                    /\ ~IsFull(g)
                    /\ g.current_members + 1 <= MAX_U64)
                   => last'.res = "ARITHMETIC_ERROR"
                /\ received' = received
                /\ groups' = groups
                /\ subs' = subs
                /\ keys' = keys
         ]_vars

\* A subscribe call that paid a fee above 0 to a group with room, after the group
\* had taken a payment before, has aborted on the expiry addition.
C30_Witness_AbortedAtTheLastInstant ==
    /\ last.op \in SubscribeOps
    /\ last.res = "ARITHMETIC_ERROR"
    /\ last.payment > 0
    /\ last.now + groups[last.group].subscription_period > MAX_U64
    /\ groups[last.group].current_members + 1 <= MAX_U64
    /\ SubsOf(last.group) # {}
    /\ received[groups[last.group].owner] > 0

\* The upload whose payload the key identifier of a request carries.
CarriesPayloadOf(keyId, u) ==
    \/ keyId = [type |-> "string", value |-> u.payload]
    \/ keyId = [type |-> "bytes", value |-> TextEncode(u.payload)]

\* C23: /seal/retrieve-key answers with an encryption key only if the request
\* names an AccessKey or a Subscription of the report's group that has not expired.
C23_KeyOnlyWithProof ==
    \A u \in uploads :
        (/\ last.op = "retrieve_key"
         /\ last.res = "OK"
         /\ CarriesPayloadOf(last.args[1], u))
        => \/ \E k \in keys :
                 /\ k.id = last.key
                 /\ k.group_id = u.group
                 /\ is_access_key_valid(k, last.now)
           \/ \E s \in subs :
                 /\ s.id = last.sub
                 /\ check_subscription_valid(s, groups[u.group], last.now)

\* C27: the off-chain expiry checks agree with now <= expires_at at every instant:
\* handleDecryptAndView goes on to decrypt exactly when is_access_key_valid holds
\* for the key it found, and isSubscriptionExpired is true exactly when
\* check_subscription_valid is false for the Subscription and its group.
C27_OffChainExpiryAgrees ==
    /\ last.op = "view_report" =>
          (last.res # "expired" <=> is_access_key_valid(KeyById(last.key), last.now))
    /\ last.op = "is_subscription_expired" =>
          (last.res = "true"
             <=> ~check_subscription_valid(SubById(last.sub), groups[last.group], last.now))

\* C28: verifyAccess on a Subscription returns true exactly when seal_approve
\* succeeds for the same key identifier, Subscription, group and time.
C28_VerifyAccessIsSealApprove ==
    (/\ last.op = "verify_access"
     /\ last.sub \in SubIds)
    => (last.res = "true"
          <=> seal_approve(last.key_id, SubById(last.sub), groups[last.group], last.now,
                           PackageVersion).res = "OK")

\* C29: for a report published by handleSubmit, a retrieve-key request with the
\* report's published seal_key_id, as handleDecryptAndView makes it, returns the
\* encryption key that handleSubmit stored.
C29_ViewReturnsStoredKey ==
    \A u \in uploads :
        /\ (/\ last.op = "view_report"
            /\ last.report = u.report
            /\ last.res # "expired")
           => /\ last.res = "OK"
              /\ last.ret = <<u.encryption_key>>
        /\ (/\ last.op = "retrieve_key"
            /\ last.args[1] = [type |-> "bytes", value |-> ReportById(u.report).seal_key_id])
           => /\ last.res = "OK"
              /\ last.ret = <<u.encryption_key>>

====
